---- MODULE Spec2Model ----
(***************************************************************************)
(* Model of email_summarizer_agent.py: the chunker, the map-reduce         *)
(* summarizer, the header parser, the MIME text extractor and the          *)
(* fetch_and_summarize run.                                                *)
(*                                                                         *)
(* A text (a Python str) is a sequence of Unicode code points.             *)
(***************************************************************************)
EXTENDS Integers, Sequences, FiniteSets, TLC

VARIABLES
    cText, cBudget, cOut, cPc,         \* chunk_text: arguments, result, position
    provider, apiKey,                  \* --provider, and whether OPENAI_API_KEY is set
    sText, sTokens, sChunks,           \* summarize_long_text: text, tokens, chunk list
    chunk_summaries,                   \* summarize_long_text: partial summaries
    sCalls,                            \* run_summary calls of the current summarization
    sSent,                             \* texts transmitted to the backend, in order
    sResult, sPc,                      \* summarize_long_text: return value, position
    hHeaders, hOut, hPc,               \* parse_headers: header list, result, position
    ePayload, eChunks, eOut, ePc,      \* extract_plain_text: payload, text_chunks, result
    msgs, idx,                         \* fetch_and_summarize: listed ids, loop position
    rHeaders,                          \* fetch_and_summarize: headers of the current message
    md_sections, summarized,           \* fetch_and_summarize: digest blocks, counter
    rLog,                              \* per summarized message: id, calls made, requests sent
    file,                              \* the texts written to out_path, in order
    rRet, rErr, rPc                    \* fetch_and_summarize: return value, exception, position

chunkVars == <<cText, cBudget, cOut, cPc>>
envVars == <<provider, apiKey>>
sumVars == <<sText, sTokens, sChunks, chunk_summaries, sCalls, sSent, sResult, sPc>>
hdrVars == <<hHeaders, hOut, hPc>>
extVars == <<ePayload, eChunks, eOut, ePc>>
runVars == <<msgs, idx, rHeaders, md_sections, summarized, rLog, file, rRet, rErr, rPc>>
vars == <<chunkVars, envVars, sumVars, hdrVars, extVars, runVars>>

----------------------------------------------------------------------------
(* Bounds of the model *)

MaxSmallLen == 9      \* longest text over SmallAlphabet
MaxSmallBudget == 2   \* largest small token budget handed to chunk_text
MaxHeaders == 3       \* longest header list handed to parse_headers
MaxParts == 2         \* longest part list of a payload node
MaxMsgs == 2          \* most messages list_messages returns
MaxSumLen == 1        \* longest text over SmallAlphabet handed to summarize_long_text

----------------------------------------------------------------------------
(* Texts *)

Min(a, b) == IF a < b THEN a ELSE b
Max(a, b) == IF a > b THEN a ELSE b

SmallAlphabet == {97, 98}

\* All texts over SmallAlphabet of length <= n.
TextsUpTo(n) == UNION {[1..k -> SmallAlphabet] : k \in 0..n}

\* A text of n pairwise distinct non-whitespace characters (code points of
\* plane 2): any loss, duplication or reordering of its characters shows.
Iota(n) == [p \in 1..n |-> 131072 + p]

\* Lengths around the 20000-character and 24000-character boundaries.
LongLens == {19999, 20000, 20001, 23999, 24000, 40000, 40001}

\* text[a:b] of Python for 0 <= a, 0 <= b.
Slice(text, a, b) == SubSeq(text, a + 1, Min(b, Len(text)))

RECURSIVE Concat(_)
Concat(ss) == IF ss = <<>> THEN <<>> ELSE Head(ss) \o Concat(Tail(ss))

RECURSIVE Join(_, _)
Join(sep, ss) ==
    IF ss = <<>> THEN <<>>
    ELSE IF Len(ss) = 1 THEN ss[1]
    ELSE ss[1] \o sep \o Join(sep, Tail(ss))

----------------------------------------------------------------------------
(* chunk_text *)

CharsPerToken == 4

RECURSIVE chunk_loop(_, _, _)
chunk_loop(text, i, approx_chars) ==
    IF i < Len(text)
    THEN <<Slice(text, i, i + approx_chars)>>
         \o chunk_loop(text, i + approx_chars, approx_chars)
    ELSE <<>>

\* chunk_text taking one character too many into each chunk
RECURSIVE chunk_loop_overlap(_, _, _)
chunk_loop_overlap(text, i, approx_chars) ==
    IF i < Len(text)
    THEN <<Slice(text, i, i + approx_chars + 1)>>
         \o chunk_loop_overlap(text, i + approx_chars, approx_chars)
    ELSE <<>>

chunk_text_overlap(text, max_tokens) ==
    chunk_loop_overlap(text, 0, max_tokens * CharsPerToken)

chunk_text(text, max_tokens) ==
    chunk_loop(text, 0, max_tokens * CharsPerToken)

ChunkInputs ==
    ((TextsUpTo(MaxSmallLen) \cup {Iota(n) : n \in 0..MaxSmallLen})
        \X (1..MaxSmallBudget))
    \cup ({Iota(n) : n \in LongLens} \X {5000, 6000})

ChunkIdle ==
    /\ cText = <<>>
    /\ cBudget = 1
    /\ cOut = <<>>
    /\ cPc = "idle"

EnvIdle == provider = "openai" /\ apiKey = TRUE

SumIdle ==
    /\ sText = <<>>
    /\ sTokens = 0
    /\ sChunks = <<>>
    /\ chunk_summaries = <<>>
    /\ sCalls = <<>>
    /\ sSent = <<>>
    /\ sResult = <<>>
    /\ sPc = "idle"

EmptyDict == [x \in {} |-> 0]

HdrIdle ==
    /\ hHeaders = <<>>
    /\ hOut = EmptyDict
    /\ hPc = "idle"

ExtIdle ==
    /\ ePayload = EmptyDict
    /\ eChunks = <<>>
    /\ eOut = <<>>
    /\ ePc = "idle"

RunIdle ==
    /\ msgs = <<>>
    /\ idx = 1
    /\ rHeaders = EmptyDict
    /\ md_sections = <<>>
    /\ summarized = 0
    /\ rLog = <<>>
    /\ file = <<>>
    /\ rRet = EmptyDict
    /\ rErr = "none"
    /\ rPc = "idle"

ChunkInit ==
    /\ EnvIdle /\ SumIdle /\ HdrIdle /\ ExtIdle /\ RunIdle
    /\ \E in \in ChunkInputs : cText = in[1] /\ cBudget = in[2]
    /\ cOut = <<>>
    /\ cPc = "call"

ChunkCall ==
    /\ cPc = "call"
    /\ cOut' = chunk_text(cText, cBudget)
    /\ cPc' = "done"
    /\ UNCHANGED <<cText, cBudget, envVars, sumVars, hdrVars, extVars, runVars>>

SpecChunk == ChunkInit /\ [][ChunkCall]_vars

\* C1: the chunks returned by chunk_text, concatenated in order, are the
\* input text: nothing is lost, duplicated or reordered.  Chunk k is the
\* slice of the text that starts where chunk k-1 ended, so chunks do not
\* overlap.
ChunkStart(chunks, k) == Len(Concat(SubSeq(chunks, 1, k - 1)))

ChunkRoundTrip ==
    cPc = "done" =>
        /\ Concat(cOut) = cText
        /\ \A k \in 1..Len(cOut) :
            /\ cOut[k] # <<>>
            /\ cOut[k] = Slice(cText, ChunkStart(cOut, k),
                               ChunkStart(cOut, k) + Len(cOut[k]))

ChunkRoundTripWitness ==
    /\ cPc = "done"
    /\ Len(cOut) >= 3
    /\ Len(cText) = 40001
    /\ Concat(cOut) = cText

----------------------------------------------------------------------------
(* The summarization backend adapter: run_summary and the two providers *)

TruncLimit == 20000
Threshold == 6000
DefaultMaxTokens == 6000

\* chunk_text called with its default budget
ChunkBudgetDefault == DefaultMaxTokens

ChunkBudget == 5000

IsSpace(c) == c \in {9, 10, 11, 12, 13, 28, 29, 30, 31, 32, 133, 160}

\* The first position >= i of s that holds no whitespace (Len(s) + 1 if
\* none), and the last position <= i that holds none (0 if none).
RECURSIVE SkipSpaces(_, _)
SkipSpaces(s, i) ==
    IF i > Len(s) \/ ~IsSpace(s[i]) THEN i ELSE SkipSpaces(s, i + 1)

RECURSIVE SkipSpacesBack(_, _)
SkipSpacesBack(s, i) ==
    IF i < 1 \/ ~IsSpace(s[i]) THEN i ELSE SkipSpacesBack(s, i - 1)

\* str.strip()
Strip(s) == SubSeq(s, SkipSpaces(s, 1), SkipSpacesBack(s, Len(s)))

\* text[:20000], the user content of the request
Truncate(text) == Slice(text, 0, TruncLimit)

Providers == {"openai", "ollama", "other"}

\* What the backend may answer to one request: a generated text ("S" or
\* " T\n"), which the adapter strips.
RawReplies == {<<83>>, <<32, 84, 10>>}

\* run_summary without the API key check of summarize_with_openai
run_summary_unchecked(text) ==
    IF provider \notin {"openai", "ollama"}
    THEN {[kind |-> "value", sent |-> <<>>, ret |-> <<>>]}
    ELSE {[kind |-> "backend", sent |-> <<Truncate(text)>>, ret |-> <<>>]}
         \cup {[kind |-> "ok", sent |-> <<Truncate(text)>>, ret |-> Strip(r)] :
                 r \in RawReplies}

\* The outcomes of one run_summary(text, provider, model) call.
\*   value  : run_summary raises ValueError, no request is made
\*   config : summarize_with_openai raises RuntimeError (no API key), no
\*            request is made
\*   backend: the request is sent and fails (raise_for_status, a timeout, a
\*            body without the expected fields)
\*   ok     : the request is sent and the stripped reply is returned
run_summary(text) ==
    IF provider \notin {"openai", "ollama"}
    THEN {[kind |-> "value", sent |-> <<>>, ret |-> <<>>]}
    ELSE IF provider = "openai" /\ ~apiKey
    THEN {[kind |-> "config", sent |-> <<>>, ret |-> <<>>]}
    ELSE {[kind |-> "backend", sent |-> <<Truncate(text)>>, ret |-> <<>>]}
         \cup {[kind |-> "ok", sent |-> <<Truncate(text)>>, ret |-> Strip(r)] :
                 r \in RawReplies}

----------------------------------------------------------------------------
(* estimate_tokens and summarize_long_text *)

\* estimate_tokens: the cl100k_base count when tiktoken encodes the text,
\* max(1, len // 4) when it raises.  The encoder is not part of the
\* repository: its count is 0 for the empty text and otherwise any number
\* from 1 to 4 * len (a token covers at least one byte, a character at most
\* four); the counts around the threshold are the ones tried.
estimate_tokens(text) ==
    {Max(1, Len(text) \div CharsPerToken)}
    \cup (IF text = <<>> THEN {0}
          ELSE {t \in {Threshold - 1, Threshold} :
                    t <= CharsPerToken * Len(text)})

CombinePrompt ==
    <<67, 111, 109, 98, 105, 110, 101, 32, 97, 110, 100, 32, 99, 111, 109,
      112, 114, 101, 115, 115, 32, 116, 104, 101, 115, 101, 32, 112, 97, 114,
      116, 105, 97, 108, 32, 115, 117, 109, 109, 97, 114, 105, 101, 115, 32,
      105, 110, 116, 111, 32, 111, 110, 101, 32, 117, 110, 100, 101, 114, 32,
      49, 53, 48, 32, 119, 111, 114, 100, 115, 58, 10>>

\* One run_summary call made by summarize_long_text, with outcome o.
Called(text, o) ==
    /\ sCalls' = Append(sCalls, [handed |-> text, kind |-> o.kind, ret |-> o.ret])
    /\ sSent' = sSent \o o.sent

\* summarize_long_text without the short-text return
SumEstimateAlwaysMap ==
    /\ sPc = "start"
    /\ \E t \in estimate_tokens(sText) :
        /\ sTokens' = t
        /\ sPc' = "map"
        /\ sChunks' = chunk_text(sText, ChunkBudget)
    /\ UNCHANGED <<sText, chunk_summaries, sCalls, sSent, sResult>>

\* tokens = estimate_tokens(text); if tokens < 6000: ... else chunk_text(text, 5000)
SumEstimate ==
    /\ sPc = "start"
    /\ \E t \in estimate_tokens(sText) :
        /\ sTokens' = t
        /\ IF t < Threshold
           THEN sPc' = "direct" /\ sChunks' = sChunks
           ELSE sPc' = "map" /\ sChunks' = chunk_text(sText, ChunkBudget)
    /\ UNCHANGED <<sText, chunk_summaries, sCalls, sSent, sResult>>

\* return run_summary(text, provider, model)
SumDirect ==
    /\ sPc = "direct"
    /\ \E o \in run_summary(sText) :
        /\ Called(sText, o)
        /\ IF o.kind = "ok"
           THEN sResult' = o.ret /\ sPc' = "returned"
           ELSE sResult' = sResult /\ sPc' = o.kind
    /\ UNCHANGED <<sText, sTokens, sChunks, chunk_summaries>>

\* The map loop with chunk_summaries.insert(0, ...) for append
SumChunkPrepend ==
    /\ sPc = "map"
    /\ Len(chunk_summaries) < Len(sChunks)
    /\ LET chunk == sChunks[Len(chunk_summaries) + 1]
       IN  \E o \in run_summary(chunk) :
            /\ Called(chunk, o)
            /\ IF o.kind = "ok"
               THEN chunk_summaries' = <<o.ret>> \o chunk_summaries /\ sPc' = sPc
               ELSE chunk_summaries' = chunk_summaries /\ sPc' = o.kind
    /\ UNCHANGED <<sText, sTokens, sChunks, sResult>>

\* chunk_summaries.append(run_summary(chunk, provider, model))
SumChunk ==
    /\ sPc = "map"
    /\ Len(chunk_summaries) < Len(sChunks)
    /\ LET chunk == sChunks[Len(chunk_summaries) + 1]
       IN  \E o \in run_summary(chunk) :
            /\ Called(chunk, o)
            /\ IF o.kind = "ok"
               THEN chunk_summaries' = Append(chunk_summaries, o.ret) /\ sPc' = sPc
               ELSE chunk_summaries' = chunk_summaries /\ sPc' = o.kind
    /\ UNCHANGED <<sText, sTokens, sChunks, sResult>>

\* The reduce step returning the joined summaries without the final call
SumCombineNoCall ==
    /\ sPc = "map"
    /\ Len(chunk_summaries) = Len(sChunks)
    /\ sResult' = Join(<<10, 10>>, chunk_summaries)
    /\ sPc' = "returned"
    /\ UNCHANGED <<sText, sTokens, sChunks, chunk_summaries, sCalls, sSent>>

\* combined = "\n\n".join(chunk_summaries); return run_summary(f"Combine ...{combined}")
SumCombine ==
    /\ sPc = "map"
    /\ Len(chunk_summaries) = Len(sChunks)
    /\ LET combined == Join(<<10, 10>>, chunk_summaries)
       IN  \E o \in run_summary(CombinePrompt \o combined) :
            /\ Called(CombinePrompt \o combined, o)
            /\ IF o.kind = "ok"
               THEN sResult' = o.ret /\ sPc' = "returned"
               ELSE sResult' = sResult /\ sPc' = o.kind
    /\ UNCHANGED <<sText, sTokens, sChunks, chunk_summaries>>

summarize_long_text == SumEstimate \/ SumDirect \/ SumChunk \/ SumCombine

SumLens == {0, 1, 1500, 20000, 20001, 24000, 40001}

SumInit ==
    /\ ChunkIdle /\ HdrIdle /\ ExtIdle /\ RunIdle
    /\ provider \in Providers
    /\ apiKey \in BOOLEAN
    /\ sText \in {Iota(n) : n \in SumLens} \cup TextsUpTo(MaxSumLen)
    /\ sTokens = 0
    /\ sChunks = <<>>
    /\ chunk_summaries = <<>>
    /\ sCalls = <<>>
    /\ sSent = <<>>
    /\ sResult = <<>>
    /\ sPc = "start"

SumNext ==
    \/ SumEstimate /\ UNCHANGED <<chunkVars, envVars, hdrVars, extVars, runVars>>
    \/ SumDirect /\ UNCHANGED <<chunkVars, envVars, hdrVars, extVars, runVars>>
    \/ SumChunk /\ UNCHANGED <<chunkVars, envVars, hdrVars, extVars, runVars>>
    \/ SumCombine /\ UNCHANGED <<chunkVars, envVars, hdrVars, extVars, runVars>>

SpecSum == SumInit /\ [][SumNext]_vars

\* The summarization ran on the map-reduce path / on the direct path.
MapReduce == sPc # "start" /\ sPc # "idle" /\ sTokens >= Threshold
Direct == sPc # "start" /\ sPc # "idle" /\ sTokens < Threshold

Rets(calls) == [k \in 1..Len(calls) |-> calls[k].ret]

\* C2: a text estimated at or above the threshold that chunk_text(text, 5000)
\* splits into N chunks is summarized, when every backend invocation
\* succeeds, with exactly N + 1 invocations, each of them a request sent.
MapReduceCallCount ==
    (sPc = "returned" /\ sTokens >= Threshold) =>
        /\ Len(sCalls) = Len(chunk_text(sText, ChunkBudget)) + 1
        /\ Len(sSent) = Len(sCalls)
        /\ \A k \in 1..Len(sCalls) : sCalls[k].kind = "ok"

MapReduceCallCountWitness ==
    /\ sPc = "returned"
    /\ sTokens >= Threshold
    /\ Len(sText) = 20001
    /\ Len(chunk_text(sText, ChunkBudget)) = 2
    /\ Len(sCalls) = 3

MapReduceOrder ==
    MapReduce =>
        LET N == Len(sChunks)
        IN  /\ Len(sCalls) <= N + 1
            /\ \A k \in 1..Len(sCalls) :
                /\ k <= N => sCalls[k].handed = chunk_text(sText, ChunkBudget)[k]
                /\ k < Len(sCalls) => sCalls[k].kind = "ok"
                /\ k = N + 1 =>
                    sCalls[k].handed =
                        CombinePrompt \o Join(<<10, 10>>, SubSeq(Rets(sCalls), 1, N))
            /\ sPc = "returned" =>
                /\ Len(sCalls) = N + 1
                /\ sResult = sCalls[N + 1].ret

MapReduceOrderWitness ==
    /\ MapReduce
    /\ sPc = "returned"
    /\ Len(sText) = 20001
    /\ Len(sChunks) = 2
    /\ Rets(sCalls) = <<<<83>>, <<84>>, <<83>>>>

\* C10: on the map-reduce path every chunk handed to the adapter has at most
\* 20000 characters, the text transmitted for chunk k is chunk k, and once
\* every chunk has been summarized the transmitted chunk texts, in order,
\* are the whole input.
ChunksNeverTruncated ==
    MapReduce =>
        LET N == Len(sChunks)
        IN  /\ \A k \in 1..Len(sCalls) :
                k <= N => Len(sCalls[k].handed) <= TruncLimit
            /\ \A k \in 1..Len(sSent) :
                k <= N => sSent[k] = sCalls[k].handed
            /\ (Len(chunk_summaries) = N /\ Len(sSent) >= N) =>
                Concat(SubSeq(sSent, 1, N)) = sText

ChunksNeverTruncatedWitness ==
    /\ MapReduce
    /\ Len(sText) = 20001
    /\ Len(chunk_summaries) = 2
    /\ Len(sSent) = 2
    /\ Len(sSent[1]) = TruncLimit

----------------------------------------------------------------------------
(* parse_headers *)

\* dict.get(k, default)
Get(d, k, default) == IF k \in DOMAIN d THEN d[k] ELSE default

\* str.lower(), on the ASCII letters
LowerChar(c) == IF c >= 65 /\ c <= 90 THEN c + 32 ELSE c
Lower(s) == [i \in 1..Len(s) |-> LowerChar(s[i])]

\* {"subject", "from", "date", "message-id"}
HeaderKeys ==
    { <<115, 117, 98, 106, 101, 99, 116>>,
      <<102, 114, 111, 109>>,
      <<100, 97, 116, 101>>,
      <<109, 101, 115, 115, 97, 103, 101, 45, 105, 100>> }

\* out[k] = v
Put(out, k, v) == [x \in DOMAIN out \cup {k} |-> IF x = k THEN v ELSE out[x]]

RECURSIVE parse_loop(_, _)
parse_loop(headers, out) ==
    IF headers = <<>> THEN out
    ELSE LET h == Head(headers)
             name == Get(h, "name", <<>>)
             val == Get(h, "value", <<>>)
             lname == Lower(name)
         IN  parse_loop(Tail(headers),
                        IF lname \in HeaderKeys THEN Put(out, lname, val) ELSE out)

\* parse_headers with out.setdefault(lname, val) for out[lname] = val
RECURSIVE parse_loop_first(_, _)
parse_loop_first(headers, out) ==
    IF headers = <<>> THEN out
    ELSE LET h == Head(headers)
             name == Get(h, "name", <<>>)
             val == Get(h, "value", <<>>)
             lname == Lower(name)
         IN  parse_loop_first(Tail(headers),
                IF lname \in HeaderKeys /\ lname \notin DOMAIN out
                THEN Put(out, lname, val) ELSE out)

parse_headers_first(payload) ==
    parse_loop_first(Get(payload, "headers", <<>>), EmptyDict)

parse_headers(payload) == parse_loop(Get(payload, "headers", <<>>), EmptyDict)

\* "Subject", "subject", "FROM", "To", "Message-ID"
HeaderNames ==
    { <<83, 117, 98, 106, 101, 99, 116>>,
      <<115, 117, 98, 106, 101, 99, 116>>,
      <<70, 82, 79, 77>>,
      <<84, 111>>,
      <<77, 101, 115, 115, 97, 103, 101, 45, 73, 68>> }

\* "Hi", "Yo"
HeaderValues == { <<72, 105>>, <<89, 111>> }

Headers == [name : HeaderNames, value : HeaderValues]

HeaderLists == UNION {[1..k -> Headers] : k \in 0..MaxHeaders}

HdrInit ==
    /\ ChunkIdle /\ EnvIdle /\ SumIdle /\ ExtIdle /\ RunIdle
    /\ hHeaders \in HeaderLists
    /\ hOut = EmptyDict
    /\ hPc = "call"

HdrCall ==
    /\ hPc = "call"
    /\ hOut' = parse_headers([headers |-> hHeaders])
    /\ hPc' = "done"
    /\ UNCHANGED <<hHeaders, chunkVars, envVars, sumVars, extVars, runVars>>

SpecHdr == HdrInit /\ [][HdrCall]_vars

\* The positions of the headers named key, case-insensitively.
Named(headers, key) == {i \in 1..Len(headers) : Lower(headers[i].name) = key}

First(S) == CHOOSE i \in S : \A j \in S : i <= j
Last(S) == CHOOSE i \in S : \A j \in S : j <= i

\* The keys of the header map are the keys of interest the list names.
HeaderMapKeys ==
    DOMAIN hOut = {key \in HeaderKeys : Named(hHeaders, key) # {}}

\* C4 as stated: each key of interest maps to the value of the FIRST header
\* of that name, and no other key is in the map.
HeaderMapFirstWins ==
    hPc = "done" =>
        /\ HeaderMapKeys
        /\ \A key \in DOMAIN hOut :
            hOut[key] = hHeaders[First(Named(hHeaders, key))].value

\* C4, amended: each key of interest maps to the value of the LAST header of
\* that name, and no other key is in the map.
HeaderMapLastWins ==
    hPc = "done" =>
        /\ HeaderMapKeys
        /\ \A key \in DOMAIN hOut :
            hOut[key] = hHeaders[Last(Named(hHeaders, key))].value

HeaderMapLastWinsWitness ==
    /\ hPc = "done"
    /\ Len(hHeaders) = 3
    /\ Cardinality(Named(hHeaders, <<115, 117, 98, 106, 101, 99, 116>>)) = 2
    /\ hHeaders[1].value = <<72, 105>>
    /\ hOut[<<115, 117, 98, 106, 101, 99, 116>>] = <<89, 111>>

----------------------------------------------------------------------------
(* _decode_base64url, the HTML reduction and extract_plain_text *)

\* The value of a character of the URL-safe base64 alphabet.
B64Value(c) ==
    IF c >= 65 /\ c <= 90 THEN c - 65
    ELSE IF c >= 97 /\ c <= 122 THEN c - 71
    ELSE IF c >= 48 /\ c <= 57 THEN c + 4
    ELSE IF c = 45 THEN 62
    ELSE 63

IsB64Char(c) ==
    \/ c >= 65 /\ c <= 90
    \/ c >= 97 /\ c <= 122
    \/ c >= 48 /\ c <= 57
    \/ c \in {45, 95}

\* base64.urlsafe_b64decode on correctly padded data: the characters of the
\* alphabet, four to three bytes; the padding "=" carries no bits.
decode_base64url(data) ==
    LET sx == SelectSeq(data, IsB64Char)
        v(i) == B64Value(sx[i])
    IN  [j \in 1..((Len(sx) * 6) \div 8) |->
            LET g == 4 * ((j - 1) \div 3)
            IN  CASE (j - 1) % 3 = 0 -> v(g + 1) * 4 + v(g + 2) \div 16
                  [] (j - 1) % 3 = 1 -> (v(g + 2) % 16) * 16 + v(g + 3) \div 4
                  [] OTHER -> (v(g + 3) % 4) * 64 + v(g + 4)]

IsAscii(b) == b < 128

\* bytes.decode(errors="ignore") on bytes that hold no well-formed
\* multi-byte sequence: the ASCII bytes are the characters, every other
\* byte is dropped.
decode_ignore(bytes) == SelectSeq(bytes, IsAscii)

\* sub in s
Contains(sub, s) ==
    \E i \in 1..(Len(s) - Len(sub) + 1) : SubSeq(s, i, i + Len(sub) - 1) = sub

MinOf(S) == CHOOSE i \in S : \A j \in S : i <= j

\* The first position >= i of s that holds c, or 0.
IndexOf(s, c, i) ==
    LET S == {j \in i..Len(s) : s[j] = c}
    IN  IF S = {} THEN 0 ELSE MinOf(S)

\* s holds w at position i (w in lower case; ignoring case when ci).
HasAt(s, w, i, ci) ==
    /\ i >= 1
    /\ i + Len(w) - 1 <= Len(s)
    /\ \A k \in 1..Len(w) :
        (IF ci THEN LowerChar(s[i + k - 1]) ELSE s[i + k - 1]) = w[k]

\* The first position >= i where s holds w, or 0.
Find(s, w, i, ci) ==
    LET S == {j \in i..Len(s) : HasAt(s, w, j, ci)}
    IN  IF S = {} THEN 0 ELSE MinOf(S)

\* (?is)<(script|style).*?>.*?</\1> matched at p: the tag name, the first
\* ">" after it, and the first closing tag of that name after that.
BlockEnd(s, p, name) ==
    IF ~HasAt(s, <<60>> \o name, p, TRUE) THEN 0
    ELSE LET q == IndexOf(s, 62, p + 1 + Len(name))
             e == IF q = 0 THEN 0
                  ELSE Find(s, <<60, 47>> \o name \o <<62>>, q + 1, TRUE)
         IN  IF e = 0 THEN 0 ELSE e + Len(name) + 2

ScriptEnd(s, p) ==
    IF BlockEnd(s, p, <<115, 99, 114, 105, 112, 116>>) > 0
    THEN BlockEnd(s, p, <<115, 99, 114, 105, 112, 116>>)
    ELSE BlockEnd(s, p, <<115, 116, 121, 108, 101>>)

\* \s of re on the ASCII characters
IsReSpace(c) == c \in {9, 10, 11, 12, 13, 28, 29, 30, 31, 32}

\* (?s)<br\s*/?> matched at p
BrEnd(s, p) ==
    IF ~HasAt(s, <<60, 98, 114>>, p, FALSE) THEN 0
    ELSE LET rest == {j \in (p + 3)..Len(s) : ~IsReSpace(s[j])}
             j == IF rest = {} THEN 0 ELSE MinOf(rest)
         IN  IF j = 0 THEN 0
             ELSE IF s[j] = 62 THEN j
             ELSE IF s[j] = 47 /\ j < Len(s) /\ s[j + 1] = 62 THEN j + 1
             ELSE 0

\* (?s)</p> matched at p
CloseParaEnd(s, p) == IF HasAt(s, <<60, 47, 112, 62>>, p, FALSE) THEN p + 3 ELSE 0

\* (?s)<.*?> matched at p
TagEnd(s, p) == IF s[p] = 60 THEN IndexOf(s, 62, p + 1) ELSE 0

\* re.sub(pattern, repl, s) from position p on: where the pattern matches at
\* p the match is replaced and the scan goes on behind it; elsewhere the
\* character is kept.
RECURSIVE SubScripts(_, _)
SubScripts(s, p) ==
    IF p > Len(s) THEN <<>>
    ELSE IF ScriptEnd(s, p) > 0 THEN SubScripts(s, ScriptEnd(s, p) + 1)
    ELSE <<s[p]>> \o SubScripts(s, p + 1)

RECURSIVE SubBr(_, _)
SubBr(s, p) ==
    IF p > Len(s) THEN <<>>
    ELSE IF BrEnd(s, p) > 0 THEN <<10>> \o SubBr(s, BrEnd(s, p) + 1)
    ELSE <<s[p]>> \o SubBr(s, p + 1)

RECURSIVE SubClosePara(_, _)
SubClosePara(s, p) ==
    IF p > Len(s) THEN <<>>
    ELSE IF CloseParaEnd(s, p) > 0
    THEN <<10, 10>> \o SubClosePara(s, CloseParaEnd(s, p) + 1)
    ELSE <<s[p]>> \o SubClosePara(s, p + 1)

RECURSIVE SubTags(_, _)
SubTags(s, p) ==
    IF p > Len(s) THEN <<>>
    ELSE IF TagEnd(s, p) > 0 THEN SubTags(s, TagEnd(s, p) + 1)
    ELSE <<s[p]>> \o SubTags(s, p + 1)

html_to_text(decoded) ==
    LET no_scripts == SubScripts(decoded, 1)
        t1 == SubBr(no_scripts, 1)
        t2 == SubClosePara(t1, 1)
    IN  SubTags(t2, 1)

RECURSIVE walk_parts(_)
walk_parts(part) ==
    IF "parts" \in DOMAIN part
    THEN Concat([i \in 1..Len(part.parts) |-> walk_parts(part.parts[i])])
    ELSE <<part>>

\* body.get("data"): absent, None and "" are all <<>>
BodyData(part) == Get(Get(part, "body", EmptyDict), "data", <<>>)

TextPlain == <<116, 101, 120, 116, 47, 112, 108, 97, 105, 110>>
TextHtml == <<116, 101, 120, 116, 47, 104, 116, 109, 108>>

\* What one leaf appends to text_chunks, tagged with where it comes from.
leaf_chunk(part) ==
    LET mime_type == Get(part, "mimeType", <<>>)
        data == BodyData(part)
        decoded == decode_ignore(decode_base64url(data))
    IN  IF data = <<>> THEN <<>>
        ELSE IF Contains(TextPlain, mime_type)
        THEN <<[origin |-> "plain", text |-> decoded]>>
        ELSE IF Contains(TextHtml, mime_type)
        THEN <<[origin |-> "html", text |-> html_to_text(decoded)]>>
        ELSE <<>>

\* text_chunks at the end of extract_plain_text
text_chunks(payload) ==
    LET mime_payload == BodyData(payload)
        top == IF mime_payload # <<>>
               THEN <<[origin |-> "body",
                       text |-> decode_ignore(decode_base64url(mime_payload))]>>
               ELSE <<>>
        leaves == IF "parts" \in DOMAIN payload THEN walk_parts(payload) ELSE <<>>
    IN  top \o Concat([i \in 1..Len(leaves) |-> leaf_chunk(leaves[i])])

NonEmptyChunk(c) == c.text # <<>>

\* "\n".join([c for c in text_chunks if c]).strip()
join_chunks(chunks) ==
    LET kept == SelectSeq(chunks, NonEmptyChunk)
    IN  Strip(Join(<<10>>, [i \in 1..Len(kept) |-> kept[i].text]))

extract_plain_text(payload) == join_chunks(text_chunks(payload))

\* "abc", "   ", "a\xffb" and two HTML documents, base64url-encoded:
\*   <p>Hello<br>World</p><script>bad()</script>
\*   <STYLE a>p{}</style >x</Style><br />y<BR>z<q
DataAbc == <<89, 87, 74, 106>>
DataSpaces == <<73, 67, 65, 103>>
DataStray == <<89, 102, 57, 105>>
DataHtmlHello ==
    <<80, 72, 65, 45, 83, 71, 86, 115, 98, 71, 56, 56, 89, 110, 73, 45, 86,
      50, 57, 121, 98, 71, 81, 56, 76, 51, 65, 45, 80, 72, 78, 106, 99, 109,
      108, 119, 100, 68, 53, 105, 89, 87, 81, 111, 75, 84, 119, 118, 99, 50,
      78, 121, 97, 88, 66, 48, 80, 103, 61, 61>>
DataHtmlStyle ==
    <<80, 70, 78, 85, 87, 85, 120, 70, 73, 71, 69, 45, 99, 72, 116, 57, 80,
      67, 57, 122, 100, 72, 108, 115, 90, 83, 65, 45, 101, 68, 119, 118, 85,
      51, 82, 53, 98, 71, 85, 45, 80, 71, 74, 121, 73, 67, 56, 45, 101, 84,
      120, 67, 85, 106, 53, 54, 80, 72, 69, 61>>

\* "text/plain; charset=utf-8", "multipart/alternative", "image/png"
TextPlainUtf8 ==
    <<116, 101, 120, 116, 47, 112, 108, 97, 105, 110, 59, 32, 99, 104, 97,
      114, 115, 101, 116, 61, 117, 116, 102, 45, 56>>
Multipart ==
    <<109, 117, 108, 116, 105, 112, 97, 114, 116, 47, 97, 108, 116, 101, 114,
      110, 97, 116, 105, 118, 101>>
ImagePng == <<105, 109, 97, 103, 101, 47, 112, 110, 103>>

Leaf(mime, data) == [mimeType |-> mime, body |-> [size |-> Len(data), data |-> data]]

Leaves ==
    { Leaf(TextPlainUtf8, DataAbc),
      Leaf(TextPlain, DataSpaces),
      Leaf(TextPlain, DataStray),
      Leaf(TextHtml, DataHtmlHello),
      Leaf(TextHtml, DataHtmlStyle),
      Leaf(ImagePng, DataAbc),
      [mimeType |-> TextPlain, body |-> [size |-> 0]] }

LeafLists(lo) == UNION {[1..k -> Leaves] : k \in lo..MaxParts}

Node(parts) == [mimeType |-> Multipart, body |-> [size |-> 0], parts |-> parts]

\* A single-part message, a multipart message, a multipart message nested in
\* another, and a node that has body data and parts.
Payloads ==
    Leaves
    \cup {Node(ps) : ps \in LeafLists(0)}
    \cup {Node(<<Node(ps), l>>) : ps \in LeafLists(1), l \in Leaves}
    \cup {[mimeType |-> Multipart, body |-> [size |-> 4, data |-> DataAbc],
           parts |-> ps] : ps \in LeafLists(1)}

ExtInit ==
    /\ ChunkIdle /\ EnvIdle /\ SumIdle /\ HdrIdle /\ RunIdle
    /\ ePayload \in Payloads
    /\ eChunks = <<>>
    /\ eOut = <<>>
    /\ ePc = "call"

ExtCall ==
    /\ ePc = "call"
    /\ eChunks' = text_chunks(ePayload)
    /\ eOut' = extract_plain_text(ePayload)
    /\ ePc' = "done"
    /\ UNCHANGED <<ePayload, chunkVars, envVars, sumVars, hdrVars, runVars>>

SpecExt == ExtInit /\ [][ExtCall]_vars

\* The two HTML documents reduce to "Hello\nWorld\n\n" and "\nyz<q", and the
\* stray byte 0xff is dropped, as CPython reduces them.
ExtractExamples ==
    /\ html_to_text(decode_ignore(decode_base64url(DataHtmlHello)))
        = <<72, 101, 108, 108, 111, 10, 87, 111, 114, 108, 100, 10, 10>>
    /\ html_to_text(decode_ignore(decode_base64url(DataHtmlStyle)))
        = <<10, 121, 122, 60, 113>>
    /\ decode_ignore(decode_base64url(DataStray)) = <<97, 98>>
    /\ decode_ignore(decode_base64url(DataSpaces)) = <<32, 32, 32>>

\* The payload has parts, one of them a text/plain leaf with body data.
HasPlainLeaf(payload) ==
    /\ "parts" \in DOMAIN payload
    /\ \E i \in 1..Len(walk_parts(payload)) :
        /\ Contains(TextPlain, Get(walk_parts(payload)[i], "mimeType", <<>>))
        /\ BodyData(walk_parts(payload)[i]) # <<>>

NotHtml(c) == c.origin # "html"

\* C5: when the payload tree has a text/plain leaf with body data, no
\* text/html leaf contributes a fragment: the extracted text is the one the
\* other fragments give.
HtmlOnlyAsFallback ==
    (ePc = "done" /\ HasPlainLeaf(ePayload)) =>
        /\ \A i \in 1..Len(eChunks) : eChunks[i].origin # "html"
        /\ eOut = join_chunks(SelectSeq(eChunks, NotHtml))

----------------------------------------------------------------------------
(* format_summary_md and fetch_and_summarize *)

NoSubject == <<40, 110, 111, 32, 115, 117, 98, 106, 101, 99, 116, 41>>
UnknownSender ==
    <<40, 117, 110, 107, 110, 111, 119, 110, 32, 115, 101, 110, 100, 101, 114, 41>>
InboxUrl ==
    <<104, 116, 116, 112, 115, 58, 47, 47, 109, 97, 105, 108, 46, 103, 111,
      111, 103, 108, 101, 46, 99, 111, 109, 47, 109, 97, 105, 108, 47, 117,
      47, 48, 47, 35, 105, 110, 98, 111, 120, 47>>
KeySubject == <<115, 117, 98, 106, 101, 99, 116>>
KeyFrom == <<102, 114, 111, 109>>
KeyDate == <<100, 97, 116, 101>>

format_summary_md(meta, summary) ==
    LET subject == Get(meta, "subject", NoSubject)
        frm == Get(meta, "from", UnknownSender)
        date == Get(meta, "date", <<>>)
        link == Get(meta, "permalink", <<>>)
        msg_id == Get(meta, "id", <<>>)
        lines ==
            << <<35, 35, 35, 32>> \o subject,
               <<45, 32, 42, 42, 70, 114, 111, 109, 58, 42, 42, 32>> \o frm,
               <<45, 32, 42, 42, 68, 97, 116, 101, 58, 42, 42, 32>> \o date,
               <<45, 32, 42, 42, 71, 109, 97, 105, 108, 32, 73, 68, 58, 42, 42,
                 32, 96>> \o msg_id \o <<96>> >>
            \o (IF link # <<>>
                THEN << <<45, 32, 42, 42, 76, 105, 110, 107, 58, 42, 42, 32>> \o link >>
                ELSE <<>>)
            \o << <<>>, summary, <<10, 45, 45, 45, 10>> >>
    IN  Join(<<10>>, lines)

\* The meta record fetch_and_summarize builds for a message.
meta_of(raw, hdrs) ==
    [subject |-> Get(hdrs, KeySubject, NoSubject),
     from |-> Get(hdrs, KeyFrom, UnknownSender),
     date |-> Get(hdrs, KeyDate, <<>>),
     id |-> Get(raw, "id", <<>>),
     permalink |-> InboxUrl \o Get(raw, "id", <<>>)]

\* The mailbox the Gmail service answers from.  m1 is a multipart message
\* with the text "abc"; m2 has one part and no body data; m3 is the text
\* "   "; m4 is a text of 24000 characters ("abc" repeated) with two Subject
\* headers.
IdM1 == <<109, 49>>
IdM2 == <<109, 50>>
IdM3 == <<109, 51>>
IdM4 == <<109, 52>>

Header(name, value) == [name |-> name, value |-> value]

LongData == [i \in 1..32000 |-> DataAbc[((i - 1) % 4) + 1]]

Mailbox ==
    (IdM1 :> [id |-> IdM1,
              payload |->
                [mimeType |-> Multipart, body |-> [size |-> 0],
                 headers |-> << Header(<<83, 117, 98, 106, 101, 99, 116>>, <<72, 105>>),
                                Header(<<70, 114, 111, 109>>, <<109, 101>>) >>,
                 parts |-> << Leaf(TextPlainUtf8, DataAbc),
                              Leaf(ImagePng, DataAbc) >>]])
    @@ (IdM2 :> [id |-> IdM2,
                 payload |->
                   [mimeType |-> Multipart, body |-> [size |-> 0],
                    headers |-> << Header(<<83, 117, 98, 106, 101, 99, 116>>, <<72, 105>>) >>,
                    parts |-> << [mimeType |-> TextPlain, body |-> [size |-> 0]] >>]])
    @@ (IdM3 :> [id |-> IdM3, payload |-> Leaf(TextPlain, DataSpaces)])
    @@ (IdM4 :> [id |-> IdM4,
                 payload |->
                   [mimeType |-> TextPlain,
                    body |-> [size |-> 24000, data |-> LongData],
                    headers |-> << Header(<<83, 117, 98, 106, 101, 99, 116>>, <<72, 105>>),
                                   Header(<<83, 117, 98, 106, 101, 99, 116>>, <<89, 111>>) >>]])

\* list_messages: up to MaxMsgs distinct message ids, each an {"id": ...}.
MsgLists ==
    {l \in UNION {[1..k -> DOMAIN Mailbox] : k \in 0..MaxMsgs} :
        \A i, j \in 1..Len(l) : i # j => l[i] # l[j]}

\* f"# Email Summaries ({datetime.now().isoformat(timespec='seconds')})\n",
\* at 2025-08-20T10:00:00
DigestHeader ==
    <<35, 32, 69, 109, 97, 105, 108, 32, 83, 117, 109, 109, 97, 114, 105, 101,
      115, 32, 40>>
    \o <<50, 48, 50, 53, 45, 48, 56, 45, 50, 48, 84, 49, 48, 58, 48, 48, 58,
         48, 48>>
    \o <<41, 10>>

NoMatch ==
    <<35, 32, 78, 111, 32, 109, 101, 115, 115, 97, 103, 101, 115, 32, 109, 97,
      116, 99, 104, 101, 100, 32, 121, 111, 117, 114, 32, 113, 117, 101, 114,
      121, 46, 10>>

OutPath == <<115, 117, 109, 109, 97, 114, 105, 101, 115, 46, 109, 100>>

\* The loop body without the skip of empty emails
skip_never(text) == FALSE

\* if not text.strip(): continue
skip_message(text) == Strip(text) = <<>>

RunInit ==
    /\ ChunkIdle /\ SumIdle /\ HdrIdle /\ ExtIdle
    /\ provider \in Providers
    /\ apiKey \in BOOLEAN
    /\ msgs \in MsgLists
    /\ idx = 1
    /\ rHeaders = EmptyDict
    /\ md_sections = <<>>
    /\ summarized = 0
    /\ rLog = <<>>
    /\ file = <<>>
    /\ rRet = EmptyDict
    /\ rErr = "none"
    /\ rPc = "list"

\* msgs = list_messages(...); if not msgs: return 0, "# No messages ..."
RunList ==
    /\ rPc = "list"
    /\ IF msgs = <<>>
       THEN /\ rRet' = [count |-> 0, path |-> NoMatch]
            /\ rPc' = "returned"
            /\ md_sections' = md_sections
       ELSE /\ md_sections' = <<DigestHeader>>
            /\ rPc' = "loop"
            /\ rRet' = rRet
    /\ UNCHANGED <<msgs, idx, rHeaders, summarized, rLog, file, rErr>>
    /\ UNCHANGED <<chunkVars, envVars, sumVars, hdrVars, extVars>>

\* The head of the loop body: get_message, parse_headers, extract_plain_text,
\* and either the skip or the call of summarize_long_text.
RunFetch ==
    /\ rPc = "loop"
    /\ idx <= Len(msgs)
    /\ LET raw == Mailbox[msgs[idx]]
           payload == Get(raw, "payload", EmptyDict)
           text == extract_plain_text(payload)
       IN  /\ rHeaders' = parse_headers(payload)
           /\ IF skip_message(text)
              THEN /\ idx' = idx + 1
                   /\ rPc' = rPc
                   /\ UNCHANGED sumVars
              ELSE /\ idx' = idx
                   /\ rPc' = "summarizing"
                   /\ sText' = text
                   /\ sPc' = "start"
                   /\ sTokens' = 0
                   /\ sChunks' = <<>>
                   /\ chunk_summaries' = <<>>
                   /\ sCalls' = <<>>
                   /\ sSent' = <<>>
                   /\ sResult' = <<>>
    /\ UNCHANGED <<msgs, md_sections, summarized, rLog, file, rRet, rErr>>
    /\ UNCHANGED <<chunkVars, envVars, hdrVars, extVars>>

\* The steps of summarize_long_text inside the loop body.
RunSummarize ==
    /\ rPc = "summarizing"
    /\ summarize_long_text
    /\ UNCHANGED <<chunkVars, envVars, hdrVars, extVars, runVars>>

\* summarize_long_text raised: the exception leaves fetch_and_summarize.
RunRaise ==
    /\ rPc = "summarizing"
    /\ sPc \in {"value", "config", "backend"}
    /\ rErr' = sPc
    /\ rPc' = "raised"
    /\ rLog' = Append(rLog, [id |-> msgs[idx], calls |-> Len(sCalls),
                             sent |-> Len(sSent)])
    /\ UNCHANGED <<msgs, idx, rHeaders, md_sections, summarized, file, rRet>>
    /\ UNCHANGED <<chunkVars, envVars, sumVars, hdrVars, extVars>>

\* The tail of the loop body, writing the digest after every message
RunAppendWrites ==
    /\ rPc = "summarizing"
    /\ sPc = "returned"
    /\ md_sections' =
        Append(md_sections,
               format_summary_md(meta_of(Mailbox[msgs[idx]], rHeaders), sResult))
    /\ file' = Append(file, Join(<<10>>, md_sections'))
    /\ summarized' = summarized + 1
    /\ rLog' = Append(rLog, [id |-> msgs[idx], calls |-> Len(sCalls),
                             sent |-> Len(sSent)])
    /\ idx' = idx + 1
    /\ rPc' = "loop"
    /\ sText' = <<>>
    /\ sTokens' = 0
    /\ sChunks' = <<>>
    /\ chunk_summaries' = <<>>
    /\ sCalls' = <<>>
    /\ sSent' = <<>>
    /\ sResult' = <<>>
    /\ sPc' = "idle"
    /\ UNCHANGED <<msgs, rHeaders, rRet, rErr>>
    /\ UNCHANGED <<chunkVars, envVars, hdrVars, extVars>>

\* The tail of the loop body: md_sections.append(format_summary_md(meta,
\* summary)); summarized += 1
RunAppend ==
    /\ rPc = "summarizing"
    /\ sPc = "returned"
    /\ md_sections' =
        Append(md_sections,
               format_summary_md(meta_of(Mailbox[msgs[idx]], rHeaders), sResult))
    /\ summarized' = summarized + 1
    /\ rLog' = Append(rLog, [id |-> msgs[idx], calls |-> Len(sCalls),
                             sent |-> Len(sSent)])
    /\ idx' = idx + 1
    /\ rPc' = "loop"
    /\ sText' = <<>>
    /\ sTokens' = 0
    /\ sChunks' = <<>>
    /\ chunk_summaries' = <<>>
    /\ sCalls' = <<>>
    /\ sSent' = <<>>
    /\ sResult' = <<>>
    /\ sPc' = "idle"
    /\ UNCHANGED <<msgs, rHeaders, file, rRet, rErr>>
    /\ UNCHANGED <<chunkVars, envVars, hdrVars, extVars>>

\* After the loop: md = "\n".join(md_sections); write it; return.
RunWrite ==
    /\ rPc = "loop"
    /\ idx > Len(msgs)
    /\ file' = Append(file, Join(<<10>>, md_sections))
    /\ rRet' = [count |-> summarized, path |-> OutPath]
    /\ rPc' = "returned"
    /\ UNCHANGED <<msgs, idx, rHeaders, md_sections, summarized, rLog, rErr>>
    /\ UNCHANGED <<chunkVars, envVars, sumVars, hdrVars, extVars>>

Next == RunList \/ RunFetch \/ RunSummarize \/ RunRaise \/ RunAppend \/ RunWrite

Spec == RunInit /\ [][Next]_vars

\* The text extracted from the message with this id.
MsgTexts ==
    [id \in DOMAIN Mailbox |->
        extract_plain_text(Get(Mailbox[id], "payload", EmptyDict))]

MsgText(id) == MsgTexts[id]

\* The positions of the listed messages whose extracted text is not empty.
NonEmpty == {i \in 1..Len(msgs) : MsgText(msgs[i]) # <<>>}

\* C6: a message whose extracted text is empty is skipped: it is never
\* summarized (no backend invocation is logged for it), it adds no block to
\* the digest and it is not counted; a run that returns has counted the
\* messages with non-empty text, and the digest has one block for each.
EmptySkipped ==
    /\ rPc = "summarizing" => MsgText(msgs[idx]) # <<>>
    /\ \A k \in 1..Len(rLog) : MsgText(rLog[k].id) # <<>>
    /\ rPc \in {"loop", "summarizing", "raised"} =>
        /\ Len(md_sections) = 1 + summarized
        /\ summarized = Cardinality({i \in NonEmpty : i < idx})
    /\ (rPc = "returned" /\ msgs # <<>>) =>
        /\ rRet.count = Cardinality(NonEmpty)
        /\ Len(md_sections) = 1 + Cardinality(NonEmpty)
        /\ [k \in 1..Len(rLog) |-> rLog[k].id]
            = [k \in 1..Len(rLog) |-> msgs[CHOOSE i \in NonEmpty :
                    Cardinality({j \in NonEmpty : j <= i}) = k]]
    /\ (rPc = "returned" /\ msgs = <<>>) => rRet.count = 0

EmptySkippedWitness ==
    /\ rPc = "returned"
    /\ Len(msgs) = 2
    /\ MsgText(msgs[1]) = <<>>
    /\ MsgText(msgs[2]) # <<>>
    /\ rRet.count = 1
    /\ Len(rLog) = 1

NoKey == provider = "openai" /\ ~apiKey

\* C7 as stated: with the openai provider and no API key, no run returns.
NoKeyNeverReturns == NoKey => rPc # "returned"

\* C7, amended: with the openai provider and no API key no request is ever
\* sent to the backend; a run over a list that holds a message with
\* non-empty text neither returns nor writes the digest, and when it stops
\* it has stopped at the first such message with the configuration error.
NoKeyFatal ==
    NoKey =>
        /\ sSent = <<>>
        /\ \A k \in 1..Len(rLog) : rLog[k].sent = 0
        /\ \A k \in 1..Len(sCalls) : sCalls[k].kind = "config"
        /\ NonEmpty # {} => (rPc # "returned" /\ file = <<>>)
        /\ rPc = "raised" =>
            /\ rErr = "config"
            /\ summarized = 0
            /\ idx \in NonEmpty
            /\ \A i \in NonEmpty : idx <= i

NoKeyFatalWitness ==
    /\ NoKey
    /\ rPc = "raised"
    /\ rErr = "config"
    /\ Len(msgs) = 2
    /\ idx = 2
    /\ sSent = <<>>

\* C9: the digest is written at most once, after the loop has processed
\* every listed message, and it is the joined blocks; a run that ends with
\* an exception has written nothing, whatever it had summarized before.
NoPartialDigest ==
    /\ Len(file) <= 1
    /\ file # <<>> =>
        /\ rPc = "returned"
        /\ idx = Len(msgs) + 1
        /\ file[1] = Join(<<10>>, md_sections)
    /\ rPc = "raised" => file = <<>>
    /\ (rPc = "returned" /\ msgs # <<>>) => Len(file) = 1

NoPartialDigestWitness ==
    /\ rPc = "raised"
    /\ rErr = "backend"
    /\ summarized = 1
    /\ Len(md_sections) = 2
    /\ file = <<>>

\* The block of m1 summarized as "S" is the block CPython renders.
FormatExample ==
    format_summary_md(meta_of(Mailbox[IdM1],
                              parse_headers(Mailbox[IdM1].payload)), <<83>>)
    = <<35, 35, 35, 32, 72, 105, 10, 45, 32, 42, 42, 70, 114, 111, 109, 58,
        42, 42, 32, 109, 101, 10, 45, 32, 42, 42, 68, 97, 116, 101, 58, 42,
        42, 32, 10, 45, 32, 42, 42, 71, 109, 97, 105, 108, 32, 73, 68, 58,
        42, 42, 32, 96, 109, 49, 96, 10, 45, 32, 42, 42, 76, 105, 110, 107,
        58, 42, 42, 32, 104, 116, 116, 112, 115, 58, 47, 47, 109, 97, 105,
        108, 46, 103, 111, 111, 103, 108, 101, 46, 99, 111, 109, 47, 109, 97,
        105, 108, 47, 117, 47, 48, 47, 35, 105, 110, 98, 111, 120, 47, 109,
        49, 10, 10, 83, 10, 10, 45, 45, 45, 10>>

====
